---- MODULE Spec2Model ----
(***************************************************************************)
(* ImplicitConditionalBarriers (pocl, lib/llvmopencl): the function pass   *)
(* that traces each conditional barrier upwards to the branch that makes   *)
(* it conditional and injects a barrier at the head of every successor of  *)
(* that branch.                                                            *)
(*                                                                         *)
(* A function is a list of basic blocks 1..n in layout order; block        *)
(* layout[1] is the entry block.  Per block the model keeps the successor  *)
(* set of its terminator, its predecessor list in pred_iterator order and  *)
(* the number of barrier instructions at its head.                         *)
(***************************************************************************)
EXTENDS Integers, Sequences, FiniteSets, TLC

\* ---------------------------------------------------------------- bounds
\* Functions of any shape (loops, unreachable blocks): blocks and edges.
SmallBlocks == 3
SmallEdges == 3
\* Functions in which every block is reachable from the entry block.
NumBlocks == 4
MaxEdges == 4
\* Acyclic functions in which every block is reachable.
DagBlocks == 5
DagEdges == 5
\* Acyclic functions with two barrier blocks.
PairBlocks == 6
PairEdges == 6
\* Functions with loops and a single barrier block.
LoopBlocks == 5
LoopEdges == 6
\* How often the host runs the pass on the same function.
MaxRuns == 2

\* The null BasicBlock pointer (blocks are numbered from 1).
NULL == 0

VARIABLES
    succs,      \* block -> set of successors of its terminator
    preds,      \* block -> predecessor list, in pred_iterator order
    layout,     \* the function's block list; layout[1] is the entry block
    kernel,     \* Workgroup::isKernelToProcess(F)
    markers,    \* block -> number of barrier instructions at its head
    pc,         \* "entry", "next", "while", "done", "crashed"
    conditionalBarriers, \* the vector built by the first loop
    idx,        \* position of iterator i in conditionalBarriers
    pos,        \* the local pos of the current trace (a block or NULL)
    changed,    \* the local changed
    ret,        \* value returned by runOnFunction: "none", "true", "false"
    run,        \* number of the current invocation on this function
    inserted,   \* history: block -> Barrier::Create calls in this run
    visited,    \* history: blocks pos has held in the current trace
    revisited,  \* history: pos took a value it already held in this trace
    pastEnd,    \* history: a predecessor scan dereferenced pred_end
    splits,     \* history: <<b, pos>> pairs whose successors were processed
    skipped,    \* history: conditional barriers passed by `continue'
    marks0,     \* history: markers when the current run started
    firstIns    \* history: the map `inserted' when the first run returned

vars == <<succs, preds, layout, kernel, markers, pc, conditionalBarriers, idx,
          pos, changed, ret, run, inserted, visited, revisited, pastEnd,
          splits, skipped, marks0, firstIns>>

graph == <<succs, preds, layout, kernel>>

\* ------------------------------------------------------------ the CFG
Blocks == DOMAIN succs

\* F.getEntryBlock()
EntryBlock == layout[1]

RECURSIVE ReachAvoid(_, _, _)
\* Blocks reachable along sc from the set S without entering `avoid'.
ReachAvoid(sc, S, avoid) ==
    LET T == S \cup ((UNION {sc[x] : x \in S}) \ {avoid})
    IN  IF T = S THEN S ELSE ReachAvoid(sc, T, avoid)

\* DominatorTree::dominates(a, b): every path from the entry block to b
\* passes through a (true for every a when b is unreachable).
DominatesIn(sc, entry, a, b) ==
    \/ a = b
    \/ b \notin ReachAvoid(sc, {entry} \ {a}, a)

\* PostDominatorTree::dominates(a, b): every path from b to a block without
\* successors passes through a (true for every a when b reaches no exit).
PostDominatesIn(sc, a, b) ==
    \/ a = b
    \/ \A x \in ReachAvoid(sc, {b}, a) : sc[x] # {}

Dominates(a, b) == DominatesIn(succs, EntryBlock, a, b)

PostDominates(a, b) == PostDominatesIn(succs, a, b)

\* Barrier::hasBarrier(b): the block's first non-trivial operation is a
\* barrier marker.
HasBarrier(marks, b) == marks[b] > 0

\* isa<BarrierBlock>(b)
IsBarrierBlock(marks, b) == marks[b] > 0

\* isa<Barrier>(succ->getFirstNonPHI())
BeginsWithBarrier(marks, s) == marks[s] > 0

\* ------------------------------------------------ the pass, line by line
RECURSIVE ScanPredecessors(_, _)
\* The scan of firstNonBackedgePredecessor from position i of bb's
\* predecessor list: `while (DT->dominates(bb, *I) && I != E) ++I;'.
\* The dereference comes before the end test, so a list made of back edges
\* only is read at pred_end: [blk |-> NULL, ub |-> TRUE].
ScanPredecessors(bb, i) ==
    IF i > Len(preds[bb])
    THEN [blk |-> NULL, ub |-> TRUE]
    ELSE IF Dominates(bb, preds[bb][i])
         THEN ScanPredecessors(bb, i + 1)
         ELSE [blk |-> preds[bb][i], ub |-> FALSE]

RECURSIVE ScanPredecessorsSwapped(_, _)
\* The scan with the arguments of dominates exchanged.
ScanPredecessorsSwapped(bb, i) ==
    IF i > Len(preds[bb])
    THEN [blk |-> NULL, ub |-> TRUE]
    ELSE IF Dominates(preds[bb][i], bb)
         THEN ScanPredecessorsSwapped(bb, i + 1)
         ELSE [blk |-> preds[bb][i], ub |-> FALSE]

firstPredecessorSwapped(bb) ==
    IF Len(preds[bb]) = 0
    THEN [blk |-> NULL, ub |-> FALSE]
    ELSE ScanPredecessorsSwapped(bb, 1)

firstNonBackedgePredecessor(bb) ==
    IF Len(preds[bb]) = 0
    THEN [blk |-> NULL, ub |-> FALSE]
    ELSE ScanPredecessors(bb, 1)

\* The pass without its kernel test.
SkipFunctionNever == FALSE

\* `if (!Workgroup::isKernelToProcess(F)) return false;'
SkipFunction == ~kernel

\* The collecting loop without its post-dominance test.
IsConditionalBarrierNoPDT(b) == HasBarrier(markers, b)

\* The test of the collecting loop: a block with a barrier that does not
\* post-dominate the entry block.
IsConditionalBarrier(b) ==
    HasBarrier(markers, b) /\ ~PostDominates(b, EntryBlock)

\* The vector conditionalBarriers after the collecting loop.
CollectConditionalBarriers ==
    SelectSeq(layout, LAMBDA b : IsConditionalBarrier(b))

\* The condition of the while loop, for a block pos.
TraceContinues(marks, b, p) ==
    ~IsBarrierBlock(marks, p) /\ PostDominates(b, p)

\* The skip test without its barrier-block half.
SkipsInjectionNoBarrierTest(marks, b, p) == p = b

\* `if (isa<BarrierBlock>(pos) || pos == b) continue;'
SkipsInjection(marks, b, p) == IsBarrierBlock(marks, p) \/ p = b

\* The successor loop without its `if (isa<Barrier>(where)) continue;'.
InjectionTargetsUnchecked(marks, p) == succs[p]

\* The successor loop stopping one successor early.
InjectionTargetsOffByOne(marks, p) ==
    {s \in succs[p] : ~BeginsWithBarrier(marks, s) /\ \E t \in succs[p] : t > s}

\* The successors of pos that get a new barrier: every successor whose
\* first non-PHI instruction is not a barrier already.
InjectionTargets(marks, p) ==
    {s \in succs[p] : ~BeginsWithBarrier(marks, s)}

\* The value of changed after the successors of a split point were looked at.
ChangedAfterInjection(marks, p) == TRUE

ZeroMarks == [x \in Blocks |-> 0]

AddMarks(marks, T) == [x \in Blocks |-> IF x \in T THEN marks[x] + 1 ELSE marks[x]]

RetOf(flag) == IF flag THEN "true" ELSE "false"

\* The loop body reading the first element instead of *i.
CurrentBarrierFirst == conditionalBarriers[1]

\* The current conditional barrier, *i.
CurrentBarrier == conditionalBarriers[idx]

RECURSIVE TraceFrom(_, _, _, _)
\* The while loop run to its end from pos = p for the conditional barrier b
\* in a function whose traces end, as the set of its outcomes: the value pos
\* holds last, the set of values it has held (b included when the loop is
\* left by `break') and whether the pass aborted.  The test of NULL and a
\* scan that reads pred_end have two outcomes each: the pass aborts, or it
\* goes on (the test true, the scan back with NULL).
TraceFrom(marks, b, p, seen) ==
    IF p = NULL
    THEN {[stop |-> NULL, chain |-> seen \cup {NULL}, aborted |-> a] :
             a \in BOOLEAN}
    ELSE IF ~TraceContinues(marks, b, p)
    THEN {[stop |-> p, chain |-> seen \cup {p}, aborted |-> FALSE]}
    ELSE LET r == firstNonBackedgePredecessor(p)
         IN  (IF r.ub
              THEN {[stop |-> p, chain |-> seen \cup {p}, aborted |-> TRUE]}
              ELSE {})
             \cup
             (IF r.blk = b
              THEN {[stop |-> b, chain |-> seen \cup {p, b}, aborted |-> FALSE]}
              ELSE TraceFrom(marks, b, r.blk, seen \cup {p}))

\* The outcomes of the trace of the conditional barrier b.  When the first
\* scan aborts, pos never holds a value.
TraceOf(marks, b) ==
    LET r == firstNonBackedgePredecessor(b)
    IN  (IF r.ub
         THEN {[stop |-> NULL, chain |-> {}, aborted |-> TRUE]}
         ELSE {})
        \cup TraceFrom(marks, b, r.blk, {})

\* The blocks that get a barrier when the trace of the conditional barrier
\* b had the outcome t (none when the pass aborted or skipped the barrier).
TargetsOf(marks, b, t) ==
    IF t.aborted \/ t.stop = NULL THEN {}
    ELSE IF SkipsInjection(marks, b, t.stop) THEN {}
    ELSE InjectionTargets(marks, t.stop)

\* One iteration of the loop over conditionalBarriers, and the whole loop
\* over the list cb, as sets of outcomes: the markers left behind and
\* whether the pass aborted (the rest of the list is then not processed).
ProcessBarrier(marks, b) ==
    {[marks |-> AddMarks(marks, TargetsOf(marks, b, t)), aborted |-> t.aborted] :
        t \in TraceOf(marks, b)}

RECURSIVE ProcessList(_, _)
ProcessList(marks, cb) ==
    IF cb = << >> THEN {[marks |-> marks, aborted |-> FALSE]}
    ELSE UNION {IF o.aborted THEN {o} ELSE ProcessList(o.marks, Tail(cb)) :
                   o \in ProcessBarrier(marks, Head(cb))}

\* runOnFunction up to the end of the collecting loop.
Enter ==
    /\ pc = "entry"
    /\ marks0' = markers
    /\ inserted' = ZeroMarks
    /\ splits' = {}
    /\ skipped' = {}
    /\ IF SkipFunction
       THEN /\ ret' = "false"
            /\ pc' = "done"
            /\ UNCHANGED <<conditionalBarriers, idx, changed>>
       ELSE /\ conditionalBarriers' = CollectConditionalBarriers
            /\ idx' = 1
            /\ changed' = FALSE
            /\ IF Len(CollectConditionalBarriers) = 0
               THEN ret' = "false" /\ pc' = "done"
               ELSE ret' = "none" /\ pc' = "next"
    /\ firstIns' = IF pc' = "done" /\ run = 1 THEN inserted' ELSE firstIns
    /\ UNCHANGED <<graph, markers, pos, run, visited, revisited, pastEnd>>

\* `pos = firstNonBackedgePredecessor(b)' for the next conditional barrier.
\* A scan that reads pred_end either aborts or comes back with NULL.
TraceStart ==
    /\ pc = "next"
    /\ idx <= Len(conditionalBarriers)
    /\ LET r == firstNonBackedgePredecessor(CurrentBarrier)
       IN  /\ pastEnd' = (pastEnd \/ r.ub)
           /\ \E survives \in (IF r.ub THEN BOOLEAN ELSE {TRUE}) :
                IF survives
                THEN pc' = "while" /\ pos' = r.blk
                ELSE pc' = "crashed" /\ pos' = pos
    /\ visited' = IF pc' = "crashed" THEN {} ELSE {pos'}
    /\ revisited' = FALSE
    /\ UNCHANGED <<graph, markers, conditionalBarriers, idx, changed, ret,
                   run, inserted, splits, skipped, marks0, firstIns>>

\* One iteration of the while loop: the condition holds for pos, pos moves
\* to its first non-back-edge predecessor, and the loop is left by `break'
\* (and the barrier by `continue') when that is b.
WhileStep ==
    /\ pc = "while"
    /\ pos # NULL
    /\ TraceContinues(markers, CurrentBarrier, pos)
    /\ LET r == firstNonBackedgePredecessor(pos)
       IN  /\ pastEnd' = (pastEnd \/ r.ub)
           /\ \E survives \in (IF r.ub THEN BOOLEAN ELSE {TRUE}) :
                IF ~survives
                THEN /\ pc' = "crashed"
                     /\ UNCHANGED <<pos, idx, visited, revisited, skipped>>
                ELSE /\ pos' = r.blk
                     /\ visited' = visited \cup {r.blk}
                     /\ revisited' = (revisited \/ r.blk \in visited)
                     /\ IF r.blk = CurrentBarrier
                        THEN /\ idx' = idx + 1
                             /\ pc' = "next"
                             /\ skipped' = skipped \cup {CurrentBarrier}
                        ELSE /\ pc' = "while"
                             /\ UNCHANGED <<idx, skipped>>
    /\ UNCHANGED <<graph, markers, conditionalBarriers, changed, ret, run,
                   inserted, splits, marks0, firstIns>>

\* The while condition fails for pos: the skip test, then the loop over the
\* successors of pos's terminator and `changed = true'.  With pos = NULL
\* isa<BarrierBlock>(pos) has no defined result: the pass aborts, or the
\* test comes out true and the barrier is skipped.
TraceEnd ==
    /\ pc = "while"
    /\ ~(pos # NULL /\ TraceContinues(markers, CurrentBarrier, pos))
    /\ IF pos = NULL
       THEN /\ \E survives \in BOOLEAN :
                 IF survives
                 THEN /\ pc' = "next"
                      /\ idx' = idx + 1
                      /\ skipped' = skipped \cup {CurrentBarrier}
                 ELSE /\ pc' = "crashed"
                      /\ UNCHANGED <<idx, skipped>>
            /\ UNCHANGED <<markers, inserted, changed, splits>>
       ELSE /\ pc' = "next"
            /\ idx' = idx + 1
            /\ IF SkipsInjection(markers, CurrentBarrier, pos)
               THEN /\ skipped' = skipped \cup {CurrentBarrier}
                    /\ UNCHANGED <<markers, inserted, changed, splits>>
               ELSE /\ markers' = AddMarks(markers, InjectionTargets(markers, pos))
                    /\ inserted' = AddMarks(inserted, InjectionTargets(markers, pos))
                    /\ changed' = ChangedAfterInjection(markers, pos)
                    /\ splits' = splits \cup {<<CurrentBarrier, pos>>}
                    /\ UNCHANGED skipped
    /\ UNCHANGED <<graph, conditionalBarriers, pos, ret, run, visited,
                   revisited, pastEnd, marks0, firstIns>>

\* `return changed;'
Return ==
    /\ pc = "next"
    /\ idx > Len(conditionalBarriers)
    /\ ret' = RetOf(changed)
    /\ pc' = "done"
    /\ firstIns' = IF run = 1 THEN inserted ELSE firstIns
    /\ UNCHANGED <<graph, markers, conditionalBarriers, idx, pos, changed,
                   run, inserted, visited, revisited, pastEnd, splits,
                   skipped, marks0>>

\* The host runs the pass again on the function as the last run left it.
Rerun ==
    /\ pc = "done"
    /\ run < MaxRuns
    /\ run' = run + 1
    /\ pc' = "entry"
    /\ ret' = "none"
    /\ UNCHANGED <<graph, markers, conditionalBarriers, idx, pos, changed,
                   inserted, visited, revisited, pastEnd, splits, skipped,
                   marks0, firstIns>>

Next == Enter \/ TraceStart \/ WhileStep \/ TraceEnd \/ Return

NextRerun == Next \/ Rerun

\* ------------------------------------------------------ the functions
RECURSIVE ExactSubsets(_, _)
\* The subsets of the set S of numbers with exactly k elements, each built
\* in rising order.
ExactSubsets(S, k) ==
    IF k = 0 THEN {{}}
    ELSE UNION {{T \cup {e} : e \in {x \in S : \A t \in T : x > t}} :
                   T \in ExactSubsets(S, k - 1)}

\* The subsets of S with at most k elements.
KSubsets(S, k) == UNION {ExactSubsets(S, j) : j \in 0..k}

\* Edge number i of a function of n blocks: from block (i-1) \div n + 1 to
\* block (i-1) % n + 1.
SuccsOf(n, E) ==
    [b \in 1..n |-> {t \in 1..n : (b - 1) * n + t \in E}]

PredSet(sc, b) == {p \in DOMAIN sc : b \in sc[p]}

RECURSIVE Perms(_)
Perms(S) ==
    IF S = {} THEN {<< >>}
    ELSE UNION {{<<x>> \o p : p \in Perms(S \ {x})} : x \in S}

RECURSIVE PredOrdersUpTo(_, _)
\* Every choice of a predecessor order for the blocks 1..k.
PredOrdersUpTo(sc, k) ==
    IF k = 0 THEN {<< >>}
    ELSE {Append(f, p) : f \in PredOrdersUpTo(sc, k - 1),
                         p \in Perms(PredSet(sc, k))}

PredOrders(sc) == PredOrdersUpTo(sc, Cardinality(DOMAIN sc))

AllReachableIn(sc) == ReachAvoid(sc, {1}, NULL) = DOMAIN sc

\* The edge numbers a function of n blocks may use: all that do not lead to
\* the entry block (block 1 has no predecessors), or only those from a
\* lower to a higher block number (an acyclic function).
AllEdges(n) == {i \in 1..(n * n) : (i - 1) % n # 0}

ForwardEdges(n) == {i \in 1..(n * n) : (i - 1) \div n < (i - 1) % n}

\* The smaller half of a set of edge numbers.
LowerHalf(S) == {i \in S : 2 * Cardinality({j \in S : j < i}) < Cardinality(S)}

\* Block lists of n blocks that start with block 1, in rising and in
\* falling order of the other blocks.
Rising(n) == [i \in 1..n |-> i]

Falling(n) == [i \in 1..n |-> IF i = 1 THEN 1 ELSE n + 2 - i]

\* The state at the call of runOnFunction on a function of n blocks with
\* successor function sc.
InitFunction(n, lays, kers, marks) ==
    /\ preds \in PredOrders(succs)
    /\ layout \in lays
    /\ kernel \in kers
    /\ markers \in marks
    /\ pc = "entry"
    /\ conditionalBarriers = << >>
    /\ idx = 1
    /\ pos = NULL
    /\ changed = FALSE
    /\ ret = "none"
    /\ run = 1
    /\ inserted = [x \in 1..n |-> 0]
    /\ visited = {}
    /\ revisited = FALSE
    /\ pastEnd = FALSE
    /\ splits = {}
    /\ skipped = {}
    /\ marks0 = markers
    /\ firstIns = inserted

Marks(n) == [1..n -> {0, 1}]

MarksWith(n, k) == {m \in Marks(n) : Cardinality({x \in 1..n : m[x] = 1}) = k}

\* succs is a function of n blocks with at most e of the edges in Allowed
\* (picked as j edges of the lower half and at most e - j of the upper one).
PickGraph(n, Allowed, e, onlyReachable) ==
    \E j \in 0..e :
        LET Low  == ExactSubsets(LowerHalf(Allowed), j)
            High == KSubsets(Allowed \ LowerHalf(Allowed), e - j)
        IN  \E A \in Low : \E B \in High :
                /\ succs = SuccsOf(n, A \cup B)
                /\ onlyReachable => AllReachableIn(succs)

\* Any function of SmallBlocks blocks, and any function of NumBlocks blocks
\* in which every block is reachable.
Init ==
    \/ /\ PickGraph(SmallBlocks, AllEdges(SmallBlocks), SmallEdges, FALSE)
       /\ InitFunction(SmallBlocks, {Rising(SmallBlocks)}, BOOLEAN,
                       Marks(SmallBlocks))
    \/ /\ PickGraph(NumBlocks, AllEdges(NumBlocks), MaxEdges, TRUE)
       /\ InitFunction(NumBlocks, {Rising(NumBlocks)}, BOOLEAN,
                       Marks(NumBlocks))

Spec == Init /\ [][Next]_vars

\* Acyclic kernel functions, run up to MaxRuns times.
InitDag ==
    /\ PickGraph(DagBlocks, ForwardEdges(DagBlocks), DagEdges, TRUE)
    /\ InitFunction(DagBlocks, {Rising(DagBlocks), Falling(DagBlocks)},
                    {TRUE}, Marks(DagBlocks))

SpecDag == InitDag /\ [][NextRerun]_vars

\* Acyclic kernel functions with two barrier blocks.
InitPair ==
    /\ PickGraph(PairBlocks, ForwardEdges(PairBlocks), PairEdges, TRUE)
    /\ InitFunction(PairBlocks, {Rising(PairBlocks)}, {TRUE},
                    MarksWith(PairBlocks, 2))

SpecPair == InitPair /\ [][Next]_vars

\* Kernel functions with loops and one barrier block.
InitLoop ==
    /\ PickGraph(LoopBlocks, AllEdges(LoopBlocks), LoopEdges, TRUE)
    /\ InitFunction(LoopBlocks, {Rising(LoopBlocks)}, {TRUE},
                    MarksWith(LoopBlocks, 1))

SpecLoop == InitLoop /\ [][Next]_vars

\* ------------------------------------------------------------ properties
Done == pc = "done"

InsertedBlocks == {x \in Blocks : inserted[x] > 0}

AllReachable == ReachAvoid(succs, {EntryBlock}, NULL) = Blocks

\* bb has a predecessor p with bb not dominating p.
HasNonBackedgePredecessor(bb) ==
    \E i \in 1..Len(preds[bb]) : ~Dominates(bb, preds[bb][i])

\* C2: repair returns true if and only if at least one barrier marker was
\* inserted during the run; when every successor of every split point
\* already begins with a marker, it returns false.
C2_TrueIffInserted ==
    Done => ((ret = "true") <=> (InsertedBlocks # {}))

\* C5: a trace that ends without a split point (no non-back-edge predecessor
\* left, back at the barrier itself, or at a barrier block) never makes
\* repair fail; no marker is inserted for that barrier and the remaining
\* conditional barriers are still processed.
C5_NoSplitNeverFails ==
    /\ pc # "crashed"
    /\ \A b \in skipped : \A p \in Blocks : <<b, p>> \notin splits
    /\ Done /\ kernel =>
          \A i \in 1..Len(conditionalBarriers) :
              \/ conditionalBarriers[i] \in skipped
              \/ \E p \in Blocks : <<conditionalBarriers[i], p>> \in splits

\* C6: for every conditional barrier b whose trace stops at a split point
\* pos (not b, not post-dominated by b), after repair every successor of pos
\* begins with a barrier marker; a successor that already began with one
\* gets no other, and no block gets more than one marker in a run.
C6_SplitSuccessorsMarkedOnce ==
    /\ \A sp \in splits :
          /\ sp[2] # sp[1]
          /\ ~PostDominates(sp[1], sp[2])
          /\ \A s \in succs[sp[2]] : BeginsWithBarrier(markers, s)
    /\ \A x \in Blocks :
          /\ inserted[x] <= 1
          /\ marks0[x] > 0 => inserted[x] = 0
          /\ markers[x] = marks0[x] + inserted[x]

\* Two conditional barriers share a split point, one successor of which
\* began with a marker and one of which got its marker in this run.
C6_Witness ==
    /\ Done
    /\ \E sp \in splits : \E sq \in splits :
          /\ sp[1] # sq[1]
          /\ sp[2] = sq[2]
          /\ \E s \in succs[sp[2]] : inserted[s] = 1
          /\ \E s \in succs[sp[2]] : marks0[s] = 1

\* C8: a barrier block that post-dominates the entry block is never in the
\* conditional-barrier list and never causes an insertion; a kernel function
\* all of whose barrier blocks post-dominate entry (or that has none) makes
\* repair return false without inserting a marker.
C8_UnconditionalBarriersIgnored ==
    /\ \A i \in 1..Len(conditionalBarriers) :
          ~PostDominates(conditionalBarriers[i], EntryBlock)
    /\ \A sp \in splits : ~PostDominates(sp[1], EntryBlock)
    /\ (Done /\ kernel /\
           \A b \in Blocks : HasBarrier(marks0, b) => PostDominates(b, EntryBlock))
         => (ret = "false" /\ markers = marks0 /\ InsertedBlocks = {})

\* A kernel function with a branch and a barrier block, all of whose
\* barrier blocks post-dominate entry, after repair.
C8_Witness ==
    /\ Done /\ kernel /\ AllReachable
    /\ \E b \in Blocks : HasBarrier(marks0, b) /\ b # EntryBlock
    /\ \A b \in Blocks : HasBarrier(marks0, b) => PostDominates(b, EntryBlock)
    /\ \E x \in Blocks : Cardinality(succs[x]) >= 2

\* C9: for a function that is not a kernel, repair returns false and no
\* block gains a barrier marker, whatever the function contains.
C9_NonKernelUntouched ==
    ~kernel =>
        /\ markers = marks0
        /\ InsertedBlocks = {}
        /\ pc \in {"entry", "done"}
        /\ Done => ret = "false"

\* A non-kernel function with a barrier block that does not post-dominate
\* entry, after repair.
C9_Witness ==
    /\ Done /\ ~kernel /\ AllReachable
    /\ \E b \in Blocks : HasBarrier(markers, b) /\ ~PostDominates(b, EntryBlock)
    /\ \E x \in Blocks : Cardinality(succs[x]) >= 2

\* C10: when every block is reachable from entry, each call of
\* firstNonBackedgePredecessor(x) made by a trace is on a block x with a
\* predecessor that x does not dominate: the call never returns NULL, the
\* scan never reads past the end of the predecessor list, and no test is
\* applied to a missing block.
C10_TraceNeverMeetsNull ==
    AllReachable =>
        /\ ~pastEnd
        /\ pc # "crashed"
        /\ pc = "while" => pos # NULL
        /\ (pc = "next" /\ idx <= Len(conditionalBarriers))
              => HasNonBackedgePredecessor(CurrentBarrier)
        /\ (pc = "while" /\ pos # NULL
              /\ TraceContinues(markers, CurrentBarrier, pos))
              => HasNonBackedgePredecessor(pos)

\* A trace in a function with every block reachable has climbed past a
\* block that has a back edge.
C10_Witness ==
    /\ AllReachable
    /\ pc = "while"
    /\ Cardinality(visited) >= 2
    /\ \E x \in visited \ {pos} :
          \E i \in 1..Len(preds[x]) : Dominates(x, preds[x][i])

\* C4: the ancestor trace of each conditional barrier terminates, whatever
\* the loops and the predecessor order: a step never follows an edge whose
\* target dominates its source, and pos never comes back to a block it has
\* left (from which the same steps would repeat for ever).
C4_TraceTerminates ==
    /\ ~revisited
    /\ (pc = "while" /\ pos # NULL) =>
          \E x \in {CurrentBarrier} \cup visited :
              x \in succs[pos] /\ ~Dominates(x, pos)

RECURSIVE BarrierCounts(_)
\* The numbers of blocks beginning with a barrier marker on the paths from
\* block x to a block without successors (the function is acyclic).
BarrierCounts(x) ==
    LET here == IF BeginsWithBarrier(markers, x) THEN 1 ELSE 0
    IN  IF succs[x] = {} THEN {here}
        ELSE {here + c : c \in UNION {BarrierCounts(s) : s \in succs[x]}}

\* C1: after repair on an acyclic kernel function with every block
\* reachable, every entry-to-exit path passes through the same number of
\* blocks with a barrier marker; no path bypasses all barriers while another
\* executes one.
C1_EqualBarrierCountOnAllPaths ==
    Done => Cardinality(BarrierCounts(EntryBlock)) = 1

\* C1, amended: after repair, for every conditional barrier whose trace
\* stopped at a split point, every path from that split point to a block
\* without successors passes through a block with a barrier marker.
C1_PathsFromSplitMeetBarrier ==
    Done => \A sp \in splits : 0 \notin BarrierCounts(sp[2])

\* After repair a path from entry bypasses every barrier while the paths
\* through a split point all meet one.
C1_Witness ==
    /\ Done
    /\ splits # {}
    /\ 0 \in BarrierCounts(EntryBlock)
    /\ Cardinality(BarrierCounts(EntryBlock)) > 1

\* C3: a second run on the output of a run that inserted markers inserts no
\* further marker.
C3_SecondRunInsertsNothing ==
    (run = 2 /\ pc # "entry" /\ \E x \in Blocks : firstIns[x] > 0)
        => InsertedBlocks = {}

\* C3, amended: the second run inserts no further marker when every block
\* that got a marker in the first run has exactly one predecessor.
C3_SecondRunInsertsNothingSinglePred ==
    (/\ run = 2 /\ pc # "entry"
     /\ \E x \in Blocks : firstIns[x] > 0
     /\ \A x \in Blocks : firstIns[x] > 0 => Len(preds[x]) = 1)
        => InsertedBlocks = {}

\* The second run has returned after a first run that inserted markers only
\* into blocks with one predecessor, and it found a split point again.
C3_Witness ==
    /\ run = 2 /\ Done
    /\ \E x \in Blocks : firstIns[x] > 0
    /\ \A x \in Blocks : firstIns[x] > 0 => Len(preds[x]) = 1
    /\ splits # {}

\* The two conditional barriers of a function, in the order swapped.
Swapped == <<conditionalBarriers[2], conditionalBarriers[1]>>

\* Neither barrier's trace (on the function as given) holds a block that
\* gets a marker when the other barrier is processed.
Unrelated(b1, b2) ==
    \A t1 \in TraceOf(marks0, b1) : \A t2 \in TraceOf(marks0, b2) :
        /\ t1.chain \cap TargetsOf(marks0, b2, t2) = {}
        /\ t2.chain \cap TargetsOf(marks0, b1, t1) = {}

\* C7: with two conditional barriers, processing them in either order gives
\* the same final markers in every block.
C7_OrderIndependent ==
    (Done /\ Len(conditionalBarriers) = 2)
        => ProcessList(marks0, Swapped) = {[marks |-> markers, aborted |-> FALSE]}

\* C7, amended: the same, for two conditional barriers that are unrelated.
C7_OrderIndependentUnrelated ==
    (/\ Done /\ Len(conditionalBarriers) = 2
     /\ Unrelated(conditionalBarriers[1], conditionalBarriers[2]))
        => ProcessList(marks0, Swapped) = {[marks |-> markers, aborted |-> FALSE]}

\* Two unrelated conditional barriers with different split points were
\* processed and each caused an insertion.
C7_Witness ==
    /\ Done /\ Len(conditionalBarriers) = 2
    /\ Unrelated(conditionalBarriers[1], conditionalBarriers[2])
    /\ Cardinality(splits) = 2
    /\ \A i \in 1..2 :
          \E t \in TraceOf(marks0, conditionalBarriers[i]) :
              TargetsOf(marks0, conditionalBarriers[i], t) # {}
    /\ \A sp \in splits : \A sq \in splits : sp # sq => sp[2] # sq[2]

====
